---- MODULE Spec2Model ----
(***************************************************************************)
(* Model of the proxt-TV relay scripts.                                    *)
(*                                                                         *)
(*   src/proxy.js             the "catchall" script: cors(), GET /proxy    *)
(*                            (plain pipe), GET /epg, catch-all relay      *)
(*   src/unnamed/part_000     lines 1-173, the "rewrite" script: hand      *)
(*                            written CORS middleware, GET /proxy with the *)
(*                            .m3u8 playlist rewrite, GET /epg, 404        *)
(*                                                                         *)
(* One inbound request is followed from its arrival to the end of its      *)
(* response: requests share no state (the scripts keep none), except that  *)
(* an uncaught exception ends the whole process.                           *)
(*                                                                         *)
(* Strings are TLA+ strings, handled as the sequences of characters they   *)
(* are (Len, SubSeq, \o), so that startsWith / endsWith / includes, the    *)
(* URL parser and encodeURIComponent are computed character by character.  *)
(***************************************************************************)
EXTENDS Integers, Sequences, FiniteSets, TLC

(***************************************************************************)
(* Bounds of the model.                                                    *)
(***************************************************************************)
\* the largest number of body chunks (playlist lines) an upstream sends
MaxChunks == 2

(***************************************************************************)
(* String primitives (JavaScript String.prototype).                        *)
(***************************************************************************)
charAt(s, i) == SubSeq(s, i, i)

substring(s, i) == SubSeq(s, i, Len(s))

startsWith(s, p) == Len(s) >= Len(p) /\ SubSeq(s, 1, Len(p)) = p

endsWith(s, p) == Len(s) >= Len(p) /\ SubSeq(s, Len(s) - Len(p) + 1, Len(s)) = p

includes(s, p) == \E i \in 1..(Len(s) - Len(p) + 1) : SubSeq(s, i, i + Len(p) - 1) = p

\* position of the first character of s that is one of the characters of
\* the string cs, or Len(s) + 1 when there is none
RECURSIVE indexOfAny(_, _, _)
indexOfAny(s, cs, i) ==
    IF i > Len(s) THEN Len(s) + 1
    ELSE IF includes(cs, charAt(s, i)) THEN i
    ELSE indexOfAny(s, cs, i + 1)

\* position of the last "/" of s, 0 when there is none
RECURSIVE lastSlash(_, _)
lastSlash(s, i) ==
    IF i = 0 THEN 0
    ELSE IF charAt(s, i) = "/" THEN i
    ELSE lastSlash(s, i - 1)

\* String.prototype.trim, for the one white-space character of the model
\* the first position of s, from i on, that holds no space
RECURSIVE firstNonSpace(_, _)
firstNonSpace(s, i) ==
    IF i <= Len(s) /\ charAt(s, i) = " " THEN firstNonSpace(s, i + 1) ELSE i

\* the last position of s, from i down, that holds no space
RECURSIVE lastNonSpace(_, _)
lastNonSpace(s, i) ==
    IF i >= 1 /\ charAt(s, i) = " " THEN lastNonSpace(s, i - 1) ELSE i

trim(s) == SubSeq(s, firstNonSpace(s, 1), lastNonSpace(s, Len(s)))

\* the characters encodeURIComponent leaves alone (ECMA-262 uriUnreserved)
uriUnreserved ==
    "abcdefghijklmnopqrstuvwxyzABCDEFGHIJKLMNOPQRSTUVWXYZ0123456789-_.!~*'()"

\* the escape of one character outside uriUnreserved (its UTF-8 octet in hex)
percentEscape(c) ==
    CASE c = " " -> "%20"
      [] c = "#" -> "%23"
      [] c = "%" -> "%25"
      [] c = "&" -> "%26"
      [] c = "/" -> "%2F"
      [] c = ":" -> "%3A"
      [] c = "=" -> "%3D"
      [] c = "?" -> "%3F"
      [] c = "[" -> "%5B"

\* encodeURIComponent of the characters of s from position i on
RECURSIVE encodeFrom(_, _)
encodeFrom(s, i) ==
    IF i > Len(s) THEN ""
    ELSE (IF includes(uriUnreserved, charAt(s, i)) THEN charAt(s, i)
          ELSE percentEscape(charAt(s, i)))
             \o encodeFrom(s, i + 1)

\* encodeURIComponent(s)
encodeURIComponent(s) == encodeFrom(s, 1)

(***************************************************************************)
(* new URL(input [, base]): the WHATWG URL parser, for the inputs of the   *)
(* model: lower-case schemes, hosts without port or credentials.           *)
(***************************************************************************)
NoBase == [ok |-> FALSE]

InvalidURL == [ok |-> FALSE]

specialSchemes == {"http", "https", "ftp", "ws", "wss", "file"}

asciiAlpha == "abcdefghijklmnopqrstuvwxyz"

\* the scheme of s (the letters before its first ":"), "" when s has none
schemeOf(s) ==
    LET c == indexOfAny(s, ":", 1)
    IN  IF c > 1 /\ c <= Len(s)
           /\ \A i \in 1..(c - 1) : includes(asciiAlpha, charAt(s, i))
        THEN SubSeq(s, 1, c - 1)
        ELSE ""

\* the path, query and fragment percent-encode sets, for the model's characters
RECURSIVE percentEncodeFrom(_, _)
percentEncodeFrom(s, i) ==
    IF i > Len(s) THEN ""
    ELSE (IF charAt(s, i) = " " THEN "%20" ELSE charAt(s, i)) \o percentEncodeFrom(s, i + 1)

utf8PercentEncode(s) == percentEncodeFrom(s, 1)

\* the pieces of s from position i on, between the separators sep
RECURSIVE splitFrom(_, _, _)
splitFrom(s, sep, i) ==
    IF indexOfAny(s, sep, i) > Len(s) THEN <<SubSeq(s, i, Len(s))>>
    ELSE <<SubSeq(s, i, indexOfAny(s, sep, i) - 1)>>
             \o splitFrom(s, sep, indexOfAny(s, sep, i) + 1)

\* String.prototype.split
split(s, sep) == splitFrom(s, sep, 1)

\* the path state: "." and ".." segments are resolved as they are met
RECURSIVE shortenPath(_, _)
shortenPath(segs, out) ==
    IF segs = <<>> THEN out
    ELSE LET h    == Head(segs)
             last == Len(segs) = 1
             up   == IF out = <<>> THEN out ELSE SubSeq(out, 1, Len(out) - 1)
         IN  shortenPath(Tail(segs),
                 IF h = ".." THEN (IF last THEN up \o <<"">> ELSE up)
                 ELSE IF h = "." THEN (IF last THEN out \o <<"">> ELSE out)
                 ELSE out \o <<h>>)

RECURSIVE joinPath(_)
joinPath(segs) == IF segs = <<>> THEN "" ELSE "/" \o Head(segs) \o joinPath(Tail(segs))

\* the serialized path of the path string p ("" or starting with "/")
parsePath(p) ==
    IF p = "" THEN "/"
    ELSE LET segs == shortenPath(split(substring(p, 2), "/"), <<>>)
         IN  IF segs = <<>> THEN "/" ELSE utf8PercentEncode(joinPath(segs))

\* path, query and fragment of the remainder r of a URL, the path read
\* after the directory dir ("" for an absolute path)
parseTail(scheme, host, dir, r) ==
    LET q == indexOfAny(r, "?#", 1)
        f == indexOfAny(r, "#", 1)
    IN  [ok       |-> TRUE,
         protocol |-> scheme \o ":",
         host     |-> host,
         pathname |-> parsePath(dir \o SubSeq(r, 1, q - 1)),
         search   |-> LET s == utf8PercentEncode(SubSeq(r, q, f - 1))
                      IN  IF s = "?" THEN "" ELSE s,
         hash     |-> LET h == utf8PercentEncode(substring(r, f))
                      IN  IF h = "#" THEN "" ELSE h]

\* the first position of s, from i on, that holds no "/"
RECURSIVE firstNonSlash(_, _)
firstNonSlash(s, i) ==
    IF i <= Len(s) /\ charAt(s, i) = "/" THEN firstNonSlash(s, i + 1) ELSE i

skipSlashes(s) == substring(s, firstNonSlash(s, 1))

\* the authority state of a special scheme: the host runs to the first of
\* "/", "?", "#"; an empty host or a forbidden host code point is a failure
parseAuthority(scheme, r) ==
    LET e    == indexOfAny(r, "/?#", 1)
        host == SubSeq(r, 1, e - 1)
    IN  IF host = "" \/ includes(host, " ") \/ includes(host, "[") \/ includes(host, "%")
        THEN InvalidURL
        ELSE parseTail(scheme, host, "", substring(r, e))

\* new URL(input, base); base = NoBase for new URL(input)
URL(input, base) ==
    LET s      == trim(input)
        scheme == schemeOf(s)
        rest   == substring(s, Len(scheme) + 2)
        dir    == SubSeq(base.pathname, 1, lastSlash(base.pathname, Len(base.pathname)))
        b      == SubSeq(base.protocol, 1, Len(base.protocol) - 1)
    IN  IF scheme # "" /\ scheme \in specialSchemes
           /\ ~(base.ok /\ b = scheme /\ ~startsWith(rest, "//"))
        THEN parseAuthority(scheme, skipSlashes(rest))
        ELSE IF scheme # "" /\ scheme \notin specialSchemes
        THEN [ok |-> TRUE, protocol |-> scheme \o ":", host |-> "",
              pathname |-> rest, search |-> "", hash |-> ""]
        ELSE IF ~base.ok THEN InvalidURL
        ELSE LET r == IF scheme # "" THEN rest ELSE s
             IN  IF startsWith(r, "//") THEN parseAuthority(b, skipSlashes(r))
                 ELSE IF startsWith(r, "/") THEN parseTail(b, base.host, "", r)
                 ELSE IF r = "" THEN [base EXCEPT !.hash = ""]
                 ELSE IF startsWith(r, "?")
                 THEN [parseTail(b, base.host, "", r) EXCEPT !.pathname = base.pathname]
                 ELSE IF startsWith(r, "#")
                 THEN [parseTail(b, base.host, "", r) EXCEPT
                          !.pathname = base.pathname, !.search = base.search]
                 ELSE parseTail(b, base.host, dir, r)

\* URL.prototype.toString
toString(u) ==
    IF u.host = "" /\ SubSeq(u.protocol, 1, Len(u.protocol) - 1) \notin specialSchemes
    THEN u.protocol \o u.pathname \o u.search \o u.hash
    ELSE u.protocol \o "//" \o u.host \o u.pathname \o u.search \o u.hash

(***************************************************************************)
(* Header maps: functions from header names to values.  Node keeps the     *)
(* names of response headers in lower case.                                *)
(***************************************************************************)
NoHeaders == [k \in {} |-> ""]

put(h, k, v) == [n \in (DOMAIN h) \cup {k} |-> IF n = k THEN v ELSE h[n]]

\* Object.entries(from).forEach(([key, value]) => res.setHeader(key, value))
RECURSIVE putAll(_, _, _)
putAll(h, from, keys) ==
    IF keys = {} THEN h
    ELSE LET k == CHOOSE n \in keys : TRUE
         IN  putAll(put(h, k, from[k]), from, keys \ {k})

has(h, k) == k \in DOMAIN h

(***************************************************************************)
(* The server response (http.ServerResponse with express's helpers).       *)
(* statusCode and headers are what the handlers have set; sentStatus,      *)
(* sentHeaders and body are what has been written to the client.           *)
(***************************************************************************)
NewResponse ==
    [statusCode  |-> 200,
     headers     |-> NoHeaders,
     headersSent |-> FALSE,
     sentStatus  |-> 0,
     sentHeaders |-> NoHeaders,
     body        |-> <<>>,
     finished    |-> FALSE]

\* res.status(code)
status(r, code) == [r EXCEPT !.statusCode = code]

\* res.setHeader(name, value), the head not yet sent
setHeader(r, k, v) == [r EXCEPT !.headers = put(@, k, v)]

\* the implicit writeHead of the first write
writeHead(r) ==
    IF r.headersSent THEN r
    ELSE [r EXCEPT !.headersSent = TRUE, !.sentStatus = r.statusCode,
                   !.sentHeaders = r.headers]

\* res.write(chunk)
write(r, chunk) == [writeHead(r) EXCEPT !.body = @ \o <<chunk>>]

\* res.end(): the head is sent if it was not, the response is finished
end(r) == [writeHead(r) EXCEPT !.finished = TRUE]

\* res.end(lines), the body given as its lines
endWith(r, lines) == [writeHead(r) EXCEPT !.body = @ \o lines, !.finished = TRUE]

\* express res.send(text), the head not yet sent: Content-Type (html unless
\* set, with its charset), Content-Length, then end
send(r, text) ==
    LET type == r.headers["content-type"]
        r1 == IF ~has(r.headers, "content-type")
              THEN setHeader(r, "content-type", "text/html; charset=utf-8")
              ELSE IF includes(type, "charset=") THEN r
              ELSE setHeader(r, "content-type", type \o "; charset=utf-8")
        r2 == setHeader(r1, "content-length", ToString(Len(text)))
    IN  endWith(r2, <<text>>)

(***************************************************************************)
(* Inbound requests.  An absent query parameter or header is "" (absent    *)
(* and empty are both falsy, and the handlers only test truthiness).       *)
(***************************************************************************)
mkReq(method, path, search, url, cookie) ==
    [method |-> method, path |-> path, originalUrl |-> path \o search,
     query |-> [url |-> url, channel |-> "", format |-> ""], cookie |-> cookie]

mkEpgReq(channel, format) ==
    [method |-> "GET", path |-> "/epg", originalUrl |-> "/epg",
     query |-> [url |-> "", channel |-> channel, format |-> format], cookie |-> ""]

\* values of the url query parameter
Targets ==
    {"",
     "https://h/a/b/master.m3u8",
     "https://h/a/b/master.m3u8?t=1",
     "https://h/v?f=.m3u8",
     "http://h/seg1.ts",
     "https://shd.edgenextcdn.net/l/x.m3u8",
     "https://h/x?r=edgenextcdn.net",
     "not a url",
     "h/a.m3u8"}

Requests ==
    {mkReq("GET", "/proxy", "", t, "") : t \in Targets}
    \cup {mkReq("GET", "/proxy", "", "http://h/seg1.ts", "sid=1"),
          mkReq("POST", "/proxy", "", "http://h/seg1.ts", ""),
          mkReq("OPTIONS", "/proxy", "", "", ""),
          mkReq("GET", "/live/x.m3u8", "?t=1", "", "sid=1"),
          mkReq("POST", "/live/seg1.ts", "", "", ""),
          mkReq("GET", "/proxyfoo", "", "", ""),
          mkReq("GET", "/epgdata", "", "", "")}
    \cup {mkEpgReq(c, f) : c \in {"", "c1", "c9"}, f \in {"", "json"}}

\* the two scripts
Scripts == {"catchall", "rewrite"}

(***************************************************************************)
(* Middleware and route handlers, up to the point where they return.  Each *)
(* yields the route that took the request, the response so far and the     *)
(* upstream request it issued (NoRequest when none).                       *)
(***************************************************************************)
NoRequest == [issued |-> FALSE]

handled(route, r, upReq, epg) == [route |-> route, res |-> r, upReq |-> upReq, epg |-> epg]

UserAgent ==
    "Mozilla/5.0 (Windows NT 10.0; Win64; x64) AppleWebKit/537.36 (KHTML, like Gecko) Chrome/124.0.0.0 Safari/537.36"

baseStreamHost == "https://shd-gcp-live.edgenextcdn.net"

\* cors() with its defaults: a preflight is answered 204 with the allowed
\* methods; any other request gets Access-Control-Allow-Origin and goes on
cors(r, q) ==
    LET r1 == setHeader(r, "access-control-allow-origin", "*")
    IN  IF q.method = "OPTIONS"
        THEN end(setHeader(setHeader(status(r1, 204),
                     "access-control-allow-methods", "GET,HEAD,PUT,PATCH,POST,DELETE"),
                     "content-length", "0"))
        ELSE r1

\* the CORS middleware of the rewrite script
corsMiddleware(r, q) ==
    LET r1 == setHeader(r, "access-control-allow-origin", "*")
        r2 == setHeader(r1, "access-control-allow-headers",
                        "Origin, X-Requested-With, Content-Type, Accept")
        r3 == setHeader(r2, "access-control-allow-methods", "GET,POST,PUT,DELETE,OPTIONS")
    IN  IF q.method = "OPTIONS" THEN send(status(r3, 200), "OK") ELSE r3

\* the anti-bot test of the /proxy handlers
needsAntiBot(targetUrl) == includes(targetUrl, "edgenextcdn.net")

\* options.headers of the /proxy handlers
proxyHeaders(targetUrl, urlObj, cookie) ==
    LET h0 == put(put(put(put(NoHeaders, "Host", urlObj.host), "User-Agent", UserAgent),
                      "Accept", "*/*"), "Connection", "keep-alive")
        h1 == IF needsAntiBot(targetUrl)
              THEN put(put(h0, "Referer", "https://www.shahid.net/"),
                       "Origin", "https://www.shahid.net")
              ELSE h0
    IN  IF cookie # "" THEN put(h1, "Cookie", cookie) ELSE h1

\* options.headers of the catch-all middleware
catchAllHeaders(urlObj, cookie) ==
    LET h0 == put(put(put(put(put(put(NoHeaders, "Host", urlObj.host),
                  "User-Agent", UserAgent), "Accept", "*/*"), "Connection", "keep-alive"),
                  "Referer", "https://www.shahid.net/"), "Origin", "https://www.shahid.net")
    IN  IF cookie # "" THEN put(h0, "Cookie", cookie) ELSE h0

\* client.get(url, options, callback)
get(url, urlObj, headers) ==
    [issued |-> TRUE, url |-> url, headers |-> headers,
     client |-> IF urlObj.protocol = "https:" THEN "https" ELSE "http"]

\* app.get("/proxy", ...) of either script, to its return
proxyHandler(r, q) ==
    LET targetUrl == q.query.url
        urlObj    == URL(targetUrl, NoBase)
    IN  IF targetUrl = ""
        THEN handled("proxy", send(status(r, 400), "Missing url param"), NoRequest, "none")
        ELSE IF ~urlObj.ok
        THEN handled("proxy", send(status(r, 500), "Proxy setup failed"), NoRequest, "none")
        ELSE handled("proxy", r,
                     get(targetUrl, urlObj, proxyHeaders(targetUrl, urlObj, q.cookie)),
                     "none")

\* app.get("/epg", ...) to its first await
epgHandler(r, q) ==
    IF q.query.channel = ""
    THEN handled("epg", send(status(r, 400), "Missing 'channel' query param"),
                 NoRequest, "none")
    ELSE handled("epg", r, NoRequest, "fetching")

\* the guard of the catch-all middleware
isReserved(path) == startsWith(path, "/epg") \/ startsWith(path, "/proxy")

\* express's final handler, reached by next() with no route left
finalHandler(r, q) ==
    handled("final", send(status(r, 404), "Cannot " \o q.method \o " " \o q.path),
            NoRequest, "none")

\* app.use((req, res, next) => ...) of the catchall script
catchAll(r, q) ==
    LET fullUrl == baseStreamHost \o q.originalUrl
        urlObj  == URL(fullUrl, NoBase)
    IN  IF isReserved(q.path) THEN finalHandler(r, q)
        ELSE IF ~urlObj.ok
        THEN handled("fallback", send(status(r, 500), "Catch-all proxy setup failed"),
                     NoRequest, "none")
        ELSE handled("fallback", r,
                     get(fullUrl, urlObj, catchAllHeaders(urlObj, q.cookie)), "none")

\* the fallback 404 handler of the rewrite script
notFound(r, q) ==
    handled("notfound",
            send(status(setHeader(r, "access-control-allow-origin", "*"), 404),
                 "Not Found: This resource does not exist on the proxy."),
            NoRequest, "none")

\* app.get(path, ...) takes GET requests for exactly that path
routeMatches(q, path) == q.method = "GET" /\ q.path = path

\* the middleware chain of a script, in the order of its app.use / app.get
dispatch(s, q) ==
    LET r1 == IF s = "catchall" THEN cors(NewResponse, q)
              ELSE corsMiddleware(NewResponse, q)
    IN  IF r1.finished THEN handled("cors", r1, NoRequest, "none")
        ELSE IF routeMatches(q, "/proxy") THEN proxyHandler(r1, q)
        ELSE IF routeMatches(q, "/epg") THEN epgHandler(r1, q)
        ELSE IF s = "catchall" THEN catchAll(r1, q)
        ELSE notFound(r1, q)

(***************************************************************************)
(* The playlist rewrite of the rewrite script.  A playlist is the sequence *)
(* of its lines: /^(?!#)(.+)$/gm visits every line that has at least one   *)
(* character and does not begin with "#", and replaces it in place.        *)
(***************************************************************************)
isAbsolute(line) == startsWith(line, "http://") \/ startsWith(line, "https://")

\* the replace callback without its root-relative branch: such a line is
\* kept as it is
rewriteLineRootKept(line, baseUrl) ==
    IF startsWith(line, "#") \/ trim(line) = "" \/ startsWith(line, "/") THEN line
    ELSE IF isAbsolute(line) THEN "/proxy?url=" \o encodeURIComponent(line)
    ELSE LET resolved == URL(line, URL(baseUrl, NoBase))
         IN  IF resolved.ok
             THEN "/proxy?url=" \o encodeURIComponent(toString(resolved))
             ELSE line

\* the replace callback without encodeURIComponent on absolute lines
rewriteLineRawAbsolute(line, baseUrl) ==
    IF startsWith(line, "#") \/ trim(line) = "" THEN line
    ELSE IF isAbsolute(line) THEN "/proxy?url=" \o line
    ELSE LET urlObj == URL(baseUrl, NoBase)
         IN  IF startsWith(line, "/")
             THEN "/proxy?url="
                      \o encodeURIComponent(urlObj.protocol \o "//" \o urlObj.host \o line)
             ELSE LET resolved == URL(line, urlObj)
                  IN  IF resolved.ok
                      THEN "/proxy?url=" \o encodeURIComponent(toString(resolved))
                      ELSE line

\* the replace callback resolving a relative line against the host alone
rewriteLineFromRoot(line, baseUrl) ==
    IF startsWith(line, "#") \/ trim(line) = "" THEN line
    ELSE IF isAbsolute(line) THEN "/proxy?url=" \o encodeURIComponent(line)
    ELSE LET urlObj == URL(baseUrl, NoBase)
         IN  IF startsWith(line, "/")
             THEN "/proxy?url="
                      \o encodeURIComponent(urlObj.protocol \o "//" \o urlObj.host \o line)
             ELSE LET resolved == URL("/" \o line, urlObj)
                  IN  IF resolved.ok
                      THEN "/proxy?url=" \o encodeURIComponent(toString(resolved))
                      ELSE line

\* the replace callback
rewriteLine(line, baseUrl) ==
    IF startsWith(line, "#") \/ trim(line) = "" THEN line
    ELSE IF isAbsolute(line) THEN "/proxy?url=" \o encodeURIComponent(line)
    ELSE LET urlObj == URL(baseUrl, NoBase)
         IN  IF startsWith(line, "/")
             THEN "/proxy?url="
                      \o encodeURIComponent(urlObj.protocol \o "//" \o urlObj.host \o line)
             ELSE LET resolved == URL(line, urlObj)
                  IN  IF resolved.ok
                      THEN "/proxy?url=" \o encodeURIComponent(toString(resolved))
                      ELSE line

\* data.replace(/^(?!#)(.+)$/gm, callback)
rewritePlaylist(data, baseUrl) ==
    [i \in 1..Len(data) |->
        IF data[i] # "" /\ ~startsWith(data[i], "#")
        THEN rewriteLine(data[i], baseUrl)
        ELSE data[i]]

\* the test that selects the rewrite
isPlaylist(targetUrl) == endsWith(targetUrl, ".m3u8")

(***************************************************************************)
(* What an upstream can answer.                                            *)
(***************************************************************************)
\* chunks of an upstream body: the lines of a playlist
Lines ==
    {"#EXTM3U", "", "https://c/s.ts", "/live/seg1.ts", "seg1.ts", "sub/seg2.ts",
     "../v/s 3.ts", "ftp://bad host/s.ts"}

upstreamHead(statusCode, headers) == [statusCode |-> statusCode, headers |-> headers]

\* response heads of an upstream: a segment, a playlist with its length
\* (that of a body of one 7-character line and its line feed),
\* an error page that names its own allowed origin
UpstreamHeads ==
    {upstreamHead(200, put(NoHeaders, "content-type", "video/mp2t")),
     upstreamHead(200, put(put(NoHeaders, "content-type", "application/x-mpegurl"),
                           "content-length", "8")),
     upstreamHead(404, put(put(NoHeaders, "content-type", "text/plain"),
                           "access-control-allow-origin", "https://www.shahid.net"))}

(***************************************************************************)
(* The EPG document as xml2js delivers it: the root element's name and its *)
(* programme entries; an attribute or child an entry lacks is undefined.   *)
(***************************************************************************)
undefined == "undefined"

null == "null"

programme(channel, start, title) ==
    [channel |-> channel, start |-> start, stop |-> "2", title |-> title,
     subTitle |-> undefined, desc |-> undefined]

\* what axios.get and parseStringPromise come to. root is the name of the
\* document's root element; empty tells a root element with no attribute, no
\* child and no text, for which the parser gives the empty string ''
\* (its emptyTag option), and programme is parsed.tv.programme || []
epgOutcome(kind, root, empty, entries) ==
    [kind |-> kind, root |-> root, empty |-> empty, programme |-> entries]

\* what the fetch and the parse of the EPG can come to: the request fails,
\* the text is not XML, or a document
EpgOutcomes ==
    {epgOutcome("fetch failed", "", FALSE, <<>>),
     epgOutcome("parse failed", "", FALSE, <<>>),
     epgOutcome("parsed", "html", FALSE, <<>>),
     epgOutcome("parsed", "tv", TRUE, <<>>),
     epgOutcome("parsed", "tv", FALSE, <<>>),
     epgOutcome("parsed", "tv", FALSE, <<programme("c1", "1", "news"),
                                         programme("c2", "1", "film"),
                                         programme("c1", "3", undefined)>>),
     epgOutcome("parsed", "tv", FALSE, <<programme("c2", "1", "film"),
                                         programme("c1", undefined, "news")>>)}

NoOutcome == epgOutcome("none", "", FALSE, <<>>)

\* !parsed.tv
noTv(doc) == doc.root # "tv" \/ doc.empty

\* p.start[0] and p.stop[0] throw a TypeError on an entry without the attribute
throwsOnMap(filtered) ==
    \E i \in 1..Len(filtered) :
        filtered[i].start = undefined \/ filtered[i].stop = undefined

\* x || null
orNull(x) == IF x = undefined \/ x = "" THEN null ELSE x

\* the filter of app.get("/epg")
filterProgrammes(all, channelFilter) ==
    SelectSeq(all, LAMBDA p : p.channel # undefined /\ p.channel = channelFilter)

\* the programmes of the JSON document
jsonProgrammes(filtered) ==
    [i \in 1..Len(filtered) |->
        [start    |-> filtered[i].start,
         stop     |-> filtered[i].stop,
         title    |-> orNull(filtered[i].title),
         subTitle |-> orNull(filtered[i].subTitle),
         desc     |-> orNull(filtered[i].desc)]]

NoDocument == [format |-> "none"]

VARIABLES
    script,     \* the script that runs
    req,        \* the inbound request
    route,      \* the middleware or route that took it
    res,        \* the response to the client
    client,     \* the client connection: "open" or "closed"
    upReq,      \* the outbound request (client.get)
    up,         \* the upstream exchange: "none", "pending" (request sent),
                \* "open" (head received), "ended", "error", "destroyed"
    proxyRes,   \* the upstream response head
    upBody,     \* the chunks of the upstream body read so far
    mode,       \* how the body is relayed: "none", "pipe", "buffer"
    data,       \* the buffer of the playlist rewrite
    epg,        \* the EPG fetch: "none", "fetching", "done"
    parsed,     \* the EPG document fetched and parsed
    epgDoc,     \* the EPG document sent
    crashed     \* an exception escaped: the process is gone

vars == <<script, req, route, res, client, upReq, up, proxyRes, upBody, mode, data,
          epg, parsed, epgDoc, crashed>>

NoInbound == mkReq("", "", "", "", "")

NoHead == upstreamHead(0, NoHeaders)

Init ==
    /\ script \in Scripts
    /\ req = NoInbound
    /\ route = "none"
    /\ res = NewResponse
    /\ client = "open"
    /\ upReq = NoRequest
    /\ up = "none"
    /\ proxyRes = NoHead
    /\ upBody = <<>>
    /\ mode = "none"
    /\ data = <<>>
    /\ epg = "none"
    /\ parsed = NoOutcome
    /\ epgDoc = NoDocument
    /\ crashed = FALSE

\* a request arrives and runs through the middleware chain
Receive(q) ==
    /\ route = "none"
    /\ LET h == dispatch(script, q)
       IN  /\ req' = q
           /\ route' = h.route
           /\ res' = h.res
           /\ upReq' = h.upReq
           /\ up' = IF h.upReq.issued THEN "pending" ELSE "none"
           /\ epg' = h.epg
    /\ UNCHANGED <<script, client, proxyRes, upBody, mode, data, epgDoc, crashed, parsed>>

\* the callback of client.get: the upstream response head has arrived
UpstreamResponse(head) ==
    /\ up = "pending"
    /\ ~crashed
    /\ up' = "open"
    /\ proxyRes' = head
    /\ res' = [status(res, head.statusCode) EXCEPT
                  !.headers = putAll(@, head.headers, DOMAIN head.headers)]
    /\ mode' = IF script = "rewrite" /\ route = "proxy" /\ isPlaylist(upReq.url)
               THEN "buffer" ELSE "pipe"
    /\ UNCHANGED <<script, req, route, client, upReq, upBody, data, epg, epgDoc, crashed, parsed>>

\* the body is read while someone reads it: the 'data' listener of the
\* rewrite, or the pipe until the closed client connection unpipes it
flowing == mode = "buffer" \/ (mode = "pipe" /\ client = "open")

\* proxyRes 'data'
UpstreamData(chunk) ==
    /\ up = "open"
    /\ ~crashed
    /\ flowing
    /\ Len(upBody) < MaxChunks
    /\ upBody' = upBody \o <<chunk>>
    /\ IF mode = "buffer"
       THEN data' = data \o <<chunk>> /\ res' = res
       ELSE data' = data /\ res' = write(res, chunk)
    /\ UNCHANGED <<script, req, route, client, upReq, up, proxyRes, mode, epg, epgDoc,
                   crashed, parsed>>

\* the 'end' of the upstream body can be delivered
canEnd == up = "open" /\ ~crashed /\ flowing

\* proxyRes 'end'
UpstreamEnd ==
    /\ canEnd
    /\ up' = "ended"
    /\ res' = IF mode = "buffer"
              THEN endWith(setHeader(res, "content-type", "application/vnd.apple.mpegurl"),
                           rewritePlaylist(data, upReq.url))
              ELSE end(res)
    /\ UNCHANGED <<script, req, route, client, upReq, proxyRes, upBody, mode, data,
                   epg, epgDoc, crashed, parsed>>

\* the 'error' listener of the outbound request: res.status(500).send(...),
\* which throws when the head has been sent, with nothing to catch it
UpstreamError ==
    /\ up \in {"pending", "open"}
    /\ ~crashed
    /\ up' = "error"
    /\ IF res.headersSent
       THEN res' = status(res, 500) /\ crashed' = TRUE
       ELSE /\ res' = send(status(res, 500),
                           IF route = "fallback" THEN "Catch-all streaming proxy failed"
                           ELSE "Streaming proxy failed")
            /\ crashed' = crashed
    /\ UNCHANGED <<script, req, route, client, upReq, proxyRes, upBody, mode, data,
                   epg, epgDoc, parsed>>

\* the client goes away during the relay; no handler listens for it
ClientDisconnect ==
    /\ up \in {"pending", "open"}
    /\ client = "open"
    /\ ~crashed
    /\ client' = "closed"
    /\ UNCHANGED <<script, req, route, res, upReq, up, proxyRes, upBody, mode, data,
                   epg, epgDoc, crashed, parsed>>

\* app.get("/epg", ...) after its await: fetched, parsed, filtered, sent
EpgResponse(outcome) ==
    /\ epg = "fetching"
    /\ epg' = "done"
    /\ parsed' = outcome
    /\ IF outcome.kind # "parsed"
       THEN /\ res' = send(status(res, 500), "Failed to fetch or parse EPG")
            /\ epgDoc' = epgDoc
       ELSE IF noTv(outcome)
       THEN /\ res' = send(status(res, 500), "Invalid EPG format")
            /\ epgDoc' = epgDoc
       ELSE LET filtered == filterProgrammes(outcome.programme, req.query.channel)
            IN  IF req.query.format = "json" /\ throwsOnMap(filtered)
                THEN /\ res' = send(status(res, 500), "Failed to fetch or parse EPG")
                     /\ epgDoc' = epgDoc
                ELSE IF req.query.format = "json"
                THEN /\ epgDoc' = [format |-> "json", channel |-> req.query.channel,
                                   programmes |-> jsonProgrammes(filtered)]
                     /\ res' = endWith(setHeader(res, "content-type", "application/json"),
                                       <<"json">>)
                ELSE /\ epgDoc' = [format |-> "xml", programme |-> filtered]
                     /\ res' = endWith(setHeader(res, "content-type", "application/xml"),
                                       <<"xml">>)
    /\ UNCHANGED <<script, req, route, client, upReq, up, proxyRes, upBody, mode, data,
                   crashed>>

Next ==
    \/ \E q \in Requests : Receive(q)
    \/ \E head \in UpstreamHeads : UpstreamResponse(head)
    \/ \E chunk \in Lines : UpstreamData(chunk)
    \/ UpstreamEnd
    \/ UpstreamError
    \/ ClientDisconnect
    \/ \E outcome \in EpgOutcomes : EpgResponse(outcome)

Spec == Init /\ [][Next]_vars

\* A live upstream goes on sending and then ends, and the event loop runs
\* the listeners; upstream failures and the client's departure are not owed.
\* The fairness of UpstreamEnd is stated by its guard: an UpstreamEnd step
\* disables UpstreamEnd, so WF_vars(UpstreamEnd) is []<>~ENABLED UpstreamEnd.
FairSpec ==
    /\ Spec
    /\ WF_vars(\E chunk \in Lines : UpstreamData(chunk))
    /\ []<>~canEnd

(***************************************************************************)
(* Properties.                                                             *)
(***************************************************************************)
\* the relay has answered with the rewritten playlist
rewrittenSent == mode = "buffer" /\ up = "ended"

\* the relay has passed a whole upstream response through
pipedThrough == mode = "pipe" /\ up = "ended"

\* C1: when the contact with the upstream fails, before the head or during
\* the body, the client response is completed, and with status 500 when no
\* byte of it had been sent before the failure.
C1_FailureCompletesResponse ==
    up = "error" =>
        /\ res.finished
        /\ (mode # "pipe" \/ upBody = <<>>) => res.sentStatus = 500

\* C2: a GET /proxy whose url parameter is present and is no valid absolute
\* URL is answered 400, and no upstream request is issued for it.
C2_InvalidUrlIs400 ==
    (route = "proxy" /\ req.query.url # "" /\ ~URL(req.query.url, NoBase).ok) =>
        /\ res.finished
        /\ res.sentStatus = 400
        /\ ~upReq.issued

\* a line the rewrite is to route through the relay
isReference(line) == trim(line) # "" /\ ~startsWith(line, "#")

\* C3, as claimed: every line of the rewritten playlist that is neither
\* blank nor a "#" line starts with "/proxy?url=", also when its resolution
\* failed.
C3_EveryLineThroughRelay ==
    rewrittenSent =>
        \A i \in 1..Len(res.body) :
            isReference(res.body[i]) => startsWith(res.body[i], "/proxy?url=")

\* C3, amended: every such line starts with "/proxy?url=", or is the
\* upstream's line unchanged, and this only when that line does not resolve
\* as a URL reference against the original URL.
C3_ResolvedLinesThroughRelay ==
    rewrittenSent =>
        /\ Len(res.body) = Len(upBody)
        /\ \A i \in 1..Len(res.body) :
              isReference(res.body[i]) =>
                  \/ startsWith(res.body[i], "/proxy?url=")
                  \/ /\ res.body[i] = upBody[i]
                     /\ ~URL(upBody[i], URL(upReq.url, NoBase)).ok

\* a rewritten playlist in which one line goes through the relay and
\* another, which does not resolve, is left as it was
C3_Witness ==
    /\ rewrittenSent
    /\ \E i \in 1..Len(res.body) :
          isReference(upBody[i]) /\ startsWith(res.body[i], "/proxy?url=")
    /\ \E i \in 1..Len(res.body) :
          isReference(upBody[i]) /\ res.body[i] = upBody[i]

\* "<scheme>://<host>" of an absolute URL, read off its text
schemeAndHost(url) ==
    SubSeq(url, 1, indexOfAny(url, "/?#", indexOfAny(url, ":", 1) + 3) - 1)

\* C4: an absolute line is rewritten to "/proxy?url=" and its percent
\* encoding; a line beginning with "/" to "/proxy?url=" and the percent
\* encoding of "<scheme>://<host>" of the original URL followed by the line.
C4_AbsoluteAndRootRelative ==
    rewrittenSent =>
        \A i \in 1..Len(upBody) :
            /\ isAbsolute(upBody[i]) =>
                  res.body[i] = "/proxy?url=" \o encodeURIComponent(upBody[i])
            /\ upBody[i] = "https://c/s.ts" =>
                  res.body[i] = "/proxy?url=https%3A%2F%2Fc%2Fs.ts"
            /\ startsWith(upBody[i], "/") =>
                  res.body[i] = "/proxy?url="
                      \o encodeURIComponent(schemeAndHost(upReq.url) \o upBody[i])
            /\ (upReq.url = "https://h/a/b/master.m3u8" /\ upBody[i] = "/live/seg1.ts") =>
                  res.body[i] = "/proxy?url=https%3A%2F%2Fh%2Flive%2Fseg1.ts"

\* a rewritten playlist with an absolute and a root-relative line
C4_Witness ==
    /\ rewrittenSent
    /\ upReq.url = "https://h/a/b/master.m3u8"
    /\ \E i \in 1..Len(upBody) : isAbsolute(upBody[i])
    /\ \E i \in 1..Len(upBody) : upBody[i] = "/live/seg1.ts"

\* a relative line of plain path segments: letters, digits, "-", "_", "."
\* and "/" only, not beginning with "/", no segment "." or ".."
isPlainRelative(line) ==
    /\ line # ""
    /\ ~startsWith(line, "/")
    /\ \A i \in 1..Len(line) :
          includes("abcdefghijklmnopqrstuvwxyz0123456789-_./", charAt(line, i))
    /\ LET segs == split(line, "/")
       IN  \A i \in 1..Len(segs) : segs[i] \notin {".", ".."}

\* a purely relative line: not absolute, not beginning with "/" or "#", not blank
isPurelyRelative(line) ==
    isReference(line) /\ ~isAbsolute(line) /\ ~startsWith(line, "/")

\* C5, as claimed: a purely relative line L of a playlist fetched from
\* https://h/a/b/master.m3u8 is rewritten to "/proxy?url=" and the percent
\* encoding of "https://h/a/" followed by L.
C5_RelativeAgainstParent ==
    (rewrittenSent /\ upReq.url = "https://h/a/b/master.m3u8") =>
        \A i \in 1..Len(upBody) :
            isPurelyRelative(upBody[i]) =>
                res.body[i] = "/proxy?url=" \o encodeURIComponent("https://h/a/" \o upBody[i])

\* C5, amended: a relative line L of plain path segments, of a playlist
\* fetched from https://h/a/b/master.m3u8, is rewritten to "/proxy?url=" and
\* the percent encoding of "https://h/a/b/" followed by L.
C5_RelativeAgainstDirectory ==
    (rewrittenSent /\ upReq.url = "https://h/a/b/master.m3u8") =>
        \A i \in 1..Len(upBody) :
            /\ isPlainRelative(upBody[i]) =>
                  res.body[i] = "/proxy?url="
                      \o encodeURIComponent("https://h/a/b/" \o upBody[i])
            /\ upBody[i] = "seg1.ts" =>
                  res.body[i] = "/proxy?url=https%3A%2F%2Fh%2Fa%2Fb%2Fseg1.ts"

\* a rewritten playlist of https://h/a/b/master.m3u8 with both plain
\* relative lines of the model
C5_Witness ==
    /\ rewrittenSent
    /\ upReq.url = "https://h/a/b/master.m3u8"
    /\ \E i \in 1..Len(upBody) : upBody[i] = "seg1.ts"
    /\ \E i \in 1..Len(upBody) : upBody[i] = "sub/seg2.ts" /\ isPlainRelative(upBody[i])

\* every header of the upstream head reached the client with its value
upstreamHeadersSent ==
    \A k \in DOMAIN proxyRes.headers :
        has(res.sentHeaders, k) /\ res.sentHeaders[k] = proxyRes.headers[k]

\* C6: the relay buffers and rewrites the body and forces the playlist
\* Content-Type exactly when the path of the target URL ends in ".m3u8",
\* whatever query or fragment follows; any other target has the upstream's
\* status, headers and body bytes passed on unmodified and in order.
C6_RewriteIffPathEndsM3u8 ==
    (script = "rewrite" /\ route = "proxy" /\ mode # "none") =>
        LET playlist == endsWith(URL(upReq.url, NoBase).pathname, ".m3u8")
        IN  /\ (mode = "buffer") <=> playlist
            /\ (rewrittenSent /\ playlist) =>
                  /\ res.sentHeaders["content-type"] = "application/vnd.apple.mpegurl"
                  /\ res.body = rewritePlaylist(upBody, upReq.url)
            /\ (pipedThrough /\ ~playlist) =>
                  /\ res.sentStatus = proxyRes.statusCode
                  /\ upstreamHeadersSent
                  /\ res.body = upBody

\* the host is the protected CDN or one of its subdomains
isCdnHost(host) == host = "edgenextcdn.net" \/ endsWith(host, ".edgenextcdn.net")

\* C7: the outbound request of a GET /proxy carries the overridden Referer
\* and Origin if and only if the host of the target URL is the protected
\* CDN; any other target gets neither header.
C7_AntiBotIffCdnHost ==
    (route = "proxy" /\ upReq.issued) =>
        IF isCdnHost(URL(upReq.url, NoBase).host)
        THEN /\ has(upReq.headers, "Referer")
             /\ upReq.headers["Referer"] = "https://www.shahid.net/"
             /\ has(upReq.headers, "Origin")
             /\ upReq.headers["Origin"] = "https://www.shahid.net"
        ELSE ~has(upReq.headers, "Referer") /\ ~has(upReq.headers, "Origin")

\* C8: in the script with the fallback, a request whose path is neither
\* exactly /proxy nor exactly /epg is relayed to the fixed upstream host
\* followed by its path and query, and a request to /proxy or /epg is never
\* taken by the fallback.  (A preflight is answered by the CORS middleware.)
C8_FallbackTakesEveryOtherPath ==
    (script = "catchall" /\ route # "none" /\ req.method # "OPTIONS") =>
        IF req.path \in {"/proxy", "/epg"}
        THEN route # "fallback"
        ELSE /\ route = "fallback"
             /\ upReq.issued
             /\ upReq.url = baseStreamHost \o req.originalUrl

\* C9: every response sent carries Access-Control-Allow-Origin: *, the
\* allowed methods GET,POST,PUT,DELETE,OPTIONS and the allowed request
\* headers; the copy of the upstream's headers replaces none of them.
\* Stated for the script whose CORS middleware sets the three headers.
C9_EveryResponseCarriesCors ==
    (script = "rewrite" /\ res.headersSent) =>
        /\ has(res.sentHeaders, "access-control-allow-origin")
        /\ res.sentHeaders["access-control-allow-origin"] = "*"
        /\ has(res.sentHeaders, "access-control-allow-methods")
        /\ res.sentHeaders["access-control-allow-methods"] = "GET,POST,PUT,DELETE,OPTIONS"
        /\ has(res.sentHeaders, "access-control-allow-headers")

\* C10: when the client disconnects while the upstream body is being
\* transferred, the relay eventually aborts the upstream read (or the
\* upstream exchange has failed by itself), instead of reading on.
C10_DisconnectAbortsUpstream ==
    (client = "closed" /\ up = "open") ~> (up \in {"destroyed", "error"})

\* the entries of the upstream document of channel X, in their order
entriesOf(doc, X) == SelectSeq(doc.programme, LAMBDA p : p.channel = X)

\* C11: for an upstream EPG document with a tv root and a non-empty channel
\* id X, GET /epg?channel=X&format=json is answered 200 with channel X and
\* programmes exactly the upstream entries of channel X, in their order,
\* the missing optional fields null; with no entry of X, 200 and an empty
\* list.
C11_JsonIsChannelSubsequence ==
    (/\ route = "epg" /\ epg = "done"
     /\ parsed.kind = "parsed" /\ parsed.root = "tv"
     /\ req.query.channel # "" /\ req.query.format = "json")
    => LET expected == entriesOf(parsed, req.query.channel)
       IN  /\ res.finished
           /\ res.sentStatus = 200
           /\ epgDoc.format = "json"
           /\ epgDoc.channel = req.query.channel
           /\ Len(epgDoc.programmes) = Len(expected)
           /\ \A i \in 1..Len(expected) :
                 /\ epgDoc.programmes[i].start = expected[i].start
                 /\ epgDoc.programmes[i].stop = expected[i].stop
                 /\ epgDoc.programmes[i].title =
                        (IF expected[i].title = undefined THEN null ELSE expected[i].title)
                 /\ epgDoc.programmes[i].subTitle =
                        (IF expected[i].subTitle = undefined THEN null
                         ELSE expected[i].subTitle)
                 /\ epgDoc.programmes[i].desc =
                        (IF expected[i].desc = undefined THEN null ELSE expected[i].desc)

\* C12: whatever the order of the upstream's events, the status and the
\* headers of the response are written at most once: no handler sets a
\* status or sends a body once the head has been sent or the response ended.
C12_HeadWrittenOnce ==
    /\ ~crashed
    /\ res.headersSent => res.statusCode = res.sentStatus

\* the bytes of a body given as its lines, a line feed after each
RECURSIVE byteLength(_)
byteLength(lines) ==
    IF lines = <<>> THEN 0 ELSE Len(Head(lines)) + 1 + byteLength(Tail(lines))

\* C13: the headers of a rewritten playlist describe the body sent: when the
\* rewritten body differs in length from the upstream's, the Content-Length
\* delivered is not the upstream's.
C13_LengthDescribesRewrittenBody ==
    (/\ rewrittenSent /\ res.finished
     /\ has(proxyRes.headers, "content-length")
     /\ proxyRes.headers["content-length"] = ToString(byteLength(upBody))
     /\ byteLength(res.body) # byteLength(upBody))
    => ~(/\ has(res.sentHeaders, "content-length")
         /\ res.sentHeaders["content-length"] = proxyRes.headers["content-length"])
====
